---- MODULE Spec2Model ----
(***************************************************************************)
(* Resume-to-job scoring: the two request handlers of the repository,      *)
(*   "app"   = src/resume_versel/app.py  (static skill vocabulary)         *)
(*   "index" = src/api/index.py          (LLM-extracted skill list)        *)
(*                                                                         *)
(* Texts are sequences of items.  An item is either a run of word          *)
(* characters that is never split ("python", "Python", "and") or a single  *)
(* non-word character (" ", "+").  Two adjacent word items form one longer *)
(* word, as the characters of the text would.                              *)
(*                                                                         *)
(* Scores are exact rationals [num, den]; on the values the handlers can   *)
(* produce, Python's float arithmetic followed by round() gives the same   *)
(* integer as the exact value rounded half-to-even.                        *)
(***************************************************************************)
EXTENDS Integers, Sequences, FiniteSets, TLC

VARIABLES
    call,       \* the function call under study (function specifications)
    ret,        \* <<its return value>>, << >> before it ran
    variant,    \* which handler module serves the request: "app" | "index"
    llm,        \* module-level client: TRUE = constructed, FALSE = None
    req,        \* the POST request being handled
    pc,         \* position of do_POST
    jdText,     \* job_description_text
    jdSkills,   \* jd_skills (index.py)
    idx,        \* number of entries of resumes_data already iterated
    results,    \* results / analysis_results
    overall,    \* overall_feedback (index.py)
    calls,      \* log of the chain.invoke calls made for this request
    exc,        \* <<message>> of the exception caught by do_POST, else << >>
    responses   \* the responses written to the client, in order

vars == <<call, ret, variant, llm, req, pc, jdText, jdSkills, idx, results,
          overall, calls, exc, responses>>

handlerVars == <<variant, llm, req, pc, jdText, jdSkills, idx, results,
                 overall, calls, exc, responses>>

-----------------------------------------------------------------------------
(* Bounds of the explored inputs.                                          *)

MaxResumeLen == 3
MaxJdLen == 3
MaxSkills == 2

-----------------------------------------------------------------------------
(* Exact arithmetic for the float scores.                                  *)

Abs(x) == IF x < 0 THEN -x ELSE x

RECURSIVE GCD(_, _)
GCD(a, b) == IF b = 0 THEN a ELSE GCD(b, a % b)

\* the rational n/d (d > 0) in lowest terms
Rat(n, d) ==
    LET g == GCD(Abs(n), d)
    IN  [num |-> n \div g, den |-> d \div g]

RatAdd(x, y) == Rat(x.num * y.den + y.num * x.den, x.den * y.den)
RatLeq(x, y) == x.num * y.den <= y.num * x.den
RatMin(x, y) == IF RatLeq(x, y) THEN x ELSE y
RatMax(x, y) == IF RatLeq(x, y) THEN y ELSE x

Zero == Rat(0, 1)
Fifty == Rat(50, 1)

\* Python's round(x) of a float: to the nearest integer, ties to even
Round(x) ==
    LET q == x.num \div x.den
        r == x.num - q * x.den
    IN  IF 2 * r < x.den THEN q
        ELSE IF 2 * r > x.den THEN q + 1
        ELSE IF q % 2 = 0 THEN q ELSE q + 1

-----------------------------------------------------------------------------
(* Texts.                                                                  *)

NonWordItems == {" ", "+"}
IsWord(c) == c \notin NonWordItems

\* str.lower() on one item
LowerItem(c) ==
    CASE c = "Python" -> "python"
      [] c = "SQL" -> "sql"
      [] c = "And" -> "and"
      [] OTHER -> c

Lower(t) == [i \in DOMAIN t |-> LowerItem(t[i])]

\* text.strip()
Strip(t) ==
    LET keep == {i \in DOMAIN t : t[i] # " "}
    IN  IF keep = {} THEN <<>>
        ELSE SubSeq(t, CHOOSE i \in keep : \A k \in keep : i <= k,
                       CHOOSE j \in keep : \A k \in keep : k <= j)

SeqsUpTo(S, n) == UNION {[1..k -> S] : k \in 0..n}

Range(s) == {s[i] : i \in DOMAIN s}

\* re.findall(r'\b\w+\b', t), as a set: the maximal runs of word items
FindAllWords(t) ==
    {SubSeq(t, i, j) : <<i, j>> \in
        {p \in (1..Len(t)) \X (1..Len(t)) :
            /\ p[1] <= p[2]
            /\ \A k \in p[1]..p[2] : IsWord(t[k])
            /\ (p[1] = 1 \/ ~IsWord(t[p[1] - 1]))
            /\ (p[2] = Len(t) \/ ~IsWord(t[p[2] + 1]))}}

STOP_WORDS ==
    {<<"and">>, <<"the">>, <<"of">>, <<"in">>, <<"to">>, <<"a">>, <<"with">>,
     <<"for">>, <<"on">>, <<"is">>, <<"are">>, <<"that">>, <<"by">>, <<"as">>,
     <<"this">>, <<"an">>, <<"or">>, <<"at">>, <<"from">>, <<"it">>, <<"be">>,
     <<"which">>, <<"you">>, <<"we">>}

\* KNOWN_SKILLS in the order sorted() gives its members
SkillsSorted ==
    << <<"aws">>, <<"communication">>, <<"deep", " ", "learning">>,
       <<"docker">>, <<"excel">>, <<"git">>, <<"java">>, <<"javascript">>,
       <<"linux">>, <<"machine", " ", "learning">>, <<"nodejs">>,
       <<"project", " ", "management">>, <<"python">>, <<"react">>,
       <<"sql">>, <<"teamwork">> >>

KNOWN_SKILLS == Range(SkillsSorted)

\* sorted(list(S)) for S a set of vocabulary skills
Sorted(S) == SelectSeq(SkillsSorted, LAMBDA s : s \in S)

-----------------------------------------------------------------------------
(* Hard-match scorer, vocabulary variant (app.py).                         *)

AppSkillsOf(text) ==
    {w \in FindAllWords(Lower(text)) : w \notin STOP_WORDS /\ w \in KNOWN_SKILLS}

\* the share of the missing skills instead of the matched ones
AppScoreOfMissing(matched, jd_skills) ==
    Rat(50 * (Cardinality(jd_skills) - Cardinality(matched)),
        Cardinality(jd_skills))

AppScore(matched, jd_skills) ==
    Rat(50 * Cardinality(matched), Cardinality(jd_skills))

AppHardMatchScore(resume_text, jd_text) ==
    LET jd_skills == AppSkillsOf(jd_text)
        resume_skills == AppSkillsOf(resume_text)
        matched == resume_skills \cap jd_skills
        missing == jd_skills \ resume_skills
    IN  IF jd_skills = {}
        THEN [score |-> Zero, matched |-> <<>>, missing |-> <<>>]
        ELSE [score |-> AppScore(matched, jd_skills),
              matched |-> Sorted(matched), missing |-> Sorted(missing)]

-----------------------------------------------------------------------------
(* Whole-word search used by the explicit-list scorer (index.py).           *)

\* \b at offset i of t (between t[i] and t[i+1]); outside the text is non-word
WordAt(t, i) == i >= 1 /\ i <= Len(t) /\ IsWord(t[i])
Boundary(t, i) == WordAt(t, i) # WordAt(t, i + 1)

\* re.search(r'\b' + re.escape(s) + r'\b', t) finds a match
SearchWholeWord(s, t) ==
    \E p \in 0..(Len(t) - Len(s)) :
        /\ SubSeq(t, p + 1, p + Len(s)) = s
        /\ Boundary(t, p)
        /\ Boundary(t, p + Len(s))

SkillFound(skill, resume_text) == SearchWholeWord(Lower(skill), Lower(resume_text))

-----------------------------------------------------------------------------
(* Decimal digits: int() and str() of the integers the LLM text can hold.  *)

Digits == {"0", "1", "2", "3", "4", "5", "6", "7", "8", "9"}

DigitVal(c) ==
    CASE c = "0" -> 0 [] c = "1" -> 1 [] c = "2" -> 2 [] c = "3" -> 3
      [] c = "4" -> 4 [] c = "5" -> 5 [] c = "6" -> 6 [] c = "7" -> 7
      [] c = "8" -> 8 [] c = "9" -> 9

DigitOf(n) == CHOOSE c \in Digits : DigitVal(c) = n

RECURSIVE DecVal(_)
DecVal(t) ==
    IF t = <<>> THEN 0
    ELSE 10 * DecVal(SubSeq(t, 1, Len(t) - 1)) + DigitVal(t[Len(t)])

RECURSIVE NatText(_)
NatText(n) ==
    IF n < 10 THEN <<DigitOf(n)>>
    ELSE Append(NatText(n \div 10), DigitOf(n % 10))

\* str(n)
IntText(n) == IF n < 0 THEN <<"-">> \o NatText(-n) ELSE NatText(n)

AllDigits(t) == t # <<>> /\ \A i \in DOMAIN t : t[i] \in Digits

\* the text is an integer literal: digits with an optional sign
IsIntText(t) ==
    \/ AllDigits(t)
    \/ Len(t) >= 2 /\ t[1] \in {"-", "+"} /\ AllDigits(Tail(t))

IntOfText(t) ==
    IF t[1] = "-" THEN -DecVal(Tail(t))
    ELSE IF t[1] = "+" THEN DecVal(Tail(t))
    ELSE DecVal(t)

-----------------------------------------------------------------------------
(* What chain.invoke(...) can do: raise, or return a dict with or without  *)
(* a "text" entry.                                                         *)

Raises == [o |-> "raise", text |-> <<>>]
NoText == [o |-> "notext", text |-> <<>>]
Says(t) == [o |-> "text", text |-> t]

-----------------------------------------------------------------------------
(* Semantic analyzer of app.py.  The LLM text is a sequence of items       *)
(* (single digits are items of their own).                                 *)

\* re.search(r'\d+', t): the first maximal run of digits, << >> if none
FirstDigitRun(t) ==
    IF \A i \in DOMAIN t : t[i] \notin Digits THEN <<>>
    ELSE LET a == CHOOSE i \in DOMAIN t :
                      t[i] \in Digits /\ \A k \in 1..(i - 1) : t[k] \notin Digits
             b == CHOOSE j \in a..Len(t) :
                      /\ \A k \in a..j : t[k] \in Digits
                      /\ (j = Len(t) \/ t[j + 1] \notin Digits)
         IN  SubSeq(t, a, b)

\* max(0, min(val, 100))
Clamp(val) == IF val > 100 THEN 100 ELSE IF val < 0 THEN 0 ELSE val

FallbackScore == Rat(25, 1)

\* the fallback score returned without a client
AppSemanticUnavailableAsFallback(llmOk, out) == FallbackScore

AppSemanticUnavailable(llmOk, out) == Zero

\* get_semantic_match_score; out is what chain.invoke does when it is called
AppSemanticMatchScore(llmOk, out) ==
    IF ~llmOk THEN AppSemanticUnavailable(llmOk, out)
    ELSE IF out.o = "raise" THEN Zero
    ELSE LET text == IF out.o = "notext" THEN <<>> ELSE Strip(out.text)
             m == FirstDigitRun(text)
         IN  IF m # <<>> THEN Rat(Clamp(DecVal(m)), 2)
             ELSE FallbackScore

AppNotAvailable == <<"LLM not available. Please set the GOOGLE_API_KEY.">>
AppSuggestError == <<"Could not generate suggestions due to an error.">>

\* get_feedback_and_suggestions
AppFeedbackAndSuggestions(llmOk, out) ==
    IF ~llmOk THEN AppNotAvailable
    ELSE IF out.o = "raise" THEN AppSuggestError
    ELSE IF out.o = "notext" THEN <<>>
    ELSE Strip(out.text)

-----------------------------------------------------------------------------
(* JSON values, as json.loads builds them.  val is always a sequence:      *)
(* the items of a string, <<n>> for a number, the elements of a list, the  *)
(* <<key, value>> pairs of a dict in insertion order (keys are strings).   *)

JStr(t) == [kind |-> "str", val |-> t]
JNum(n) == [kind |-> "num", val |-> <<n>>]
JNull == [kind |-> "null", val |-> <<>>]
JList(xs) == [kind |-> "list", val |-> xs]
JDict(ms) == [kind |-> "dict", val |-> ms]

\* bool(v)
Truthy(v) ==
    CASE v.kind = "null" -> FALSE
      [] v.kind = "num" -> v.val[1] # 0
      [] OTHER -> v.val # <<>>

HasKey(d, k) == \E i \in DOMAIN d.val : d.val[i][1] = k

\* d.get(k, default)
DictGet(d, k, default) ==
    IF HasKey(d, k)
    THEN d.val[CHOOSE i \in DOMAIN d.val : d.val[i][1] = k][2]
    ELSE default

\* d[k] = v on the pair sequence ms
DictSet(ms, k, v) ==
    IF \E i \in DOMAIN ms : ms[i][1] = k
    THEN [i \in DOMAIN ms |-> IF ms[i][1] = k THEN <<k, v>> ELSE ms[i]]
    ELSE Append(ms, <<k, v>>)

-----------------------------------------------------------------------------
(* The LLM text of index.py is a sequence of tokens: JSON punctuation,     *)
(* string literals, number literals, null, and any other characters.       *)

Punct(c) == [k |-> "punct", v |-> <<c>>]
StrTok(t) == [k |-> "string", v |-> t]
NumTok(n) == [k |-> "number", v |-> <<n>>]
NullTok == [k |-> "null", v |-> <<>>]
Prose == [k |-> "other", v |-> <<"Sure">>]

LBrace == Punct("{")
RBrace == Punct("}")
LBrack == Punct("[")
RBrack == Punct("]")
Colon == Punct(":")
Comma == Punct(",")

\* re.search(r'\{.*\}|\[.*\]', t, re.DOTALL): the leftmost position where an
\* alternative matches, extended to the last closer; << >> if no match
SearchJson(t) ==
    LET Opens(p) ==
            \/ t[p] = LBrace /\ \E q \in (p + 1)..Len(t) : t[q] = RBrace
            \/ t[p] = LBrack /\ \E q \in (p + 1)..Len(t) : t[q] = RBrack
    IN  IF \A p \in DOMAIN t : ~Opens(p) THEN <<>>
        ELSE LET p == CHOOSE i \in DOMAIN t :
                          Opens(i) /\ \A k \in 1..(i - 1) : ~Opens(k)
                 closer == IF t[p] = LBrace THEN RBrace ELSE RBrack
                 q == CHOOSE j \in (p + 1)..Len(t) :
                          t[j] = closer /\ \A k \in (j + 1)..Len(t) : t[k] # closer
             IN  SubSeq(t, p, q)

ParseFail == [ok |-> FALSE, val |-> JNull, next |-> 0]
ParseOk(v, n) == [ok |-> TRUE, val |-> v, next |-> n]

RECURSIVE ParseValue(_, _), ParseElems(_, _, _), ParseMembers(_, _, _)

\* one JSON value starting at t[i]
ParseValue(t, i) ==
    IF i > Len(t) THEN ParseFail
    ELSE CASE t[i].k = "string" -> ParseOk(JStr(t[i].v), i + 1)
           [] t[i].k = "number" -> ParseOk(JNum(t[i].v[1]), i + 1)
           [] t[i].k = "null" -> ParseOk(JNull, i + 1)
           [] t[i] = LBrack ->
                IF i + 1 <= Len(t) /\ t[i + 1] = RBrack
                THEN ParseOk(JList(<<>>), i + 2)
                ELSE ParseElems(t, i + 1, <<>>)
           [] t[i] = LBrace ->
                IF i + 1 <= Len(t) /\ t[i + 1] = RBrace
                THEN ParseOk(JDict(<<>>), i + 2)
                ELSE ParseMembers(t, i + 1, <<>>)
           [] OTHER -> ParseFail

\* value (, value)* ] with the elements so far in acc
ParseElems(t, i, acc) ==
    LET r == ParseValue(t, i)
    IN  IF ~r.ok \/ r.next > Len(t) THEN ParseFail
        ELSE IF t[r.next] = RBrack
             THEN ParseOk(JList(Append(acc, r.val)), r.next + 1)
        ELSE IF t[r.next] = Comma
             THEN ParseElems(t, r.next + 1, Append(acc, r.val))
        ELSE ParseFail

\* string : value (, string : value)* } with the pairs so far in acc
ParseMembers(t, i, acc) ==
    IF i + 1 > Len(t) \/ t[i].k # "string" \/ t[i + 1] # Colon THEN ParseFail
    ELSE LET r == ParseValue(t, i + 2)
         IN  IF ~r.ok \/ r.next > Len(t) THEN ParseFail
             ELSE IF t[r.next] = RBrace
                  THEN ParseOk(JDict(DictSet(acc, t[i].v, r.val)), r.next + 1)
             ELSE IF t[r.next] = Comma
                  THEN ParseMembers(t, r.next + 1, DictSet(acc, t[i].v, r.val))
             ELSE ParseFail

\* json.loads(t): ok = FALSE stands for JSONDecodeError
JsonLoads(t) ==
    LET r == ParseValue(t, 1)
    IN  IF r.ok /\ r.next = Len(t) + 1 THEN r ELSE ParseFail

\* default_value or {}
DefaultOrEmptyDict(default_value) ==
    IF Truthy(default_value) THEN default_value ELSE JDict(<<>>)

\* parse_llm_json_response
ParseLlmJsonResponse(response_text, default_value) ==
    LET json_match == SearchJson(response_text)
    IN  IF json_match = <<>> THEN DefaultOrEmptyDict(default_value)
        ELSE LET r == JsonLoads(json_match)
             IN  IF r.ok THEN r.val ELSE DefaultOrEmptyDict(default_value)

-----------------------------------------------------------------------------
(* Core AI functions of index.py.                                          *)

\* extract_jd_skills
ExtractJdSkills(llmOk, out) ==
    IF ~llmOk THEN JList(<<>>)
    ELSE IF out.o = "raise" THEN JList(<<>>)
    ELSE LET response_text ==
                 IF out.o = "notext" THEN <<LBrack, RBrack>> ELSE out.text
         IN  ParseLlmJsonResponse(response_text, JList(<<>>))

\* int(v): ok = FALSE stands for the ValueError or TypeError it raises
PyInt(v) ==
    CASE v.kind = "num" -> [ok |-> TRUE, n |-> v.val[1]]
      [] v.kind = "str" /\ IsIntText(v.val) -> [ok |-> TRUE, n |-> IntOfText(v.val)]
      [] OTHER -> [ok |-> FALSE, n |-> 0]

NotAvailable == JStr(<<"LLM not available.">>)
ErrorParsing == JStr(<<"Error parsing AI feedback.">>)
NoSuggestions == JStr(<<"No suggestions generated.">>)
ErrorDuring == JStr(<<"Error during AI analysis.">>)

AnalysisUnavailable(llmOk, out) == [score |-> Zero, suggestions |-> NotAvailable]

\* the rescaled score without the clamp
NormalizeUnclamped(n) == Rat(n * 50, 100)

\* max(0, min((n / 100) * 50, 50))
Normalize(n) == RatMax(Zero, RatMin(Rat(n * 50, 100), Fifty))

\* get_llm_analysis
LlmAnalysis(llmOk, out) ==
    IF ~llmOk THEN AnalysisUnavailable(llmOk, out)
    ELSE IF out.o = "raise" THEN [score |-> Zero, suggestions |-> ErrorDuring]
    ELSE LET response_text ==
                 IF out.o = "notext" THEN <<LBrace, RBrace>> ELSE out.text
             parsed_json ==
                 ParseLlmJsonResponse(response_text,
                     JDict(<< <<<<"score">>, JNum(0)>>,
                              <<<<"suggestions">>, ErrorParsing>> >>))
             raw == PyInt(DictGet(parsed_json, <<"score">>, JNum(0)))
         IN  IF parsed_json.kind # "dict" \/ ~raw.ok
             THEN [score |-> Zero, suggestions |-> ErrorDuring]
             ELSE [score |-> Normalize(raw.n),
                   suggestions |->
                       DictGet(parsed_json, <<"suggestions">>, NoSuggestions)]

OverallUnavailable == <<"LLM not available for summary generation.">>
OverallNoText == <<"Could not generate overall feedback.">>
OverallError == <<"Error generating summary.">>

\* generate_overall_feedback
GenerateOverallFeedback(llmOk, out) ==
    IF ~llmOk THEN OverallUnavailable
    ELSE IF out.o = "raise" THEN OverallError
    ELSE IF out.o = "notext" THEN OverallNoText
    ELSE out.text

-----------------------------------------------------------------------------
(* Hard-match scorer, explicit-list variant (index.py).  required_skills   *)
(* is whatever extract_jd_skills returned: a JSON list or dict.            *)

\* the values `for skill in required_skills` yields
Iterate(v) ==
    IF v.kind = "dict" THEN [i \in DOMAIN v.val |-> JStr(v.val[i][1])]
    ELSE v.val

\* scaled to 100 instead of 50
IndexScoreOutOf100(matched, required) ==
    Rat(100 * Len(matched), Len(required))

IndexScore(matched, required) == Rat(50 * Len(matched), Len(required))

\* get_hard_match_score; raised = TRUE stands for the AttributeError of
\* skill.lower() on a skill that is no string
IndexHardMatchScore(resume_text, required_skills) ==
    IF ~Truthy(required_skills)
    THEN [raised |-> FALSE, score |-> Zero, matched |-> <<>>, missing |-> <<>>]
    ELSE LET required == Iterate(required_skills)
             matched == SelectSeq(required,
                            LAMBDA s : SkillFound(s.val, resume_text))
             missing == SelectSeq(required, LAMBDA s : s \notin Range(matched))
         IN  IF \E i \in DOMAIN required : required[i].kind # "str"
             THEN [raised |-> TRUE, score |-> Zero,
                   matched |-> <<>>, missing |-> <<>>]
             ELSE [raised |-> FALSE,
                   score |-> IndexScore(matched, required),
                   matched |-> matched, missing |-> missing]

-----------------------------------------------------------------------------
(* The request and its decoding (both handlers share this code).           *)
(*   req.contentLength  "ok" | "bad"   the Content-Length header parses    *)
(*   req.body           "ok" | "bad"   the body is a JSON object           *)
(*   req.jd             [form, text]   job_description: plain text, or a   *)
(*                      data URL whose extractor yields text; "malformed"  *)
(*                      is a data URL without comma or with bad base64     *)
(*   req.resumes        entries [fileName, content, text]: text is what    *)
(*                      the extractor yields for the decoded bytes (<< >>  *)
(*                      when it fails); content "malformed" is a missing   *)
(*                      field, a missing comma or bad base64               *)

LowerName(f) ==
    [i \in DOMAIN f |->
        CASE f[i] = ".PDF" -> ".pdf"
          [] f[i] = ".DOCX" -> ".docx"
          [] f[i] = "CV" -> "cv"
          [] OTHER -> f[i]]

\* f.endswith(suffix), the suffix being one item
EndsWith(f, suffix) == f # <<>> /\ f[Len(f)] = suffix

\* job_description_text; raised = TRUE when split or b64decode raises
DecodeJd(jd) ==
    CASE jd.form = "malformed" -> [raised |-> TRUE, text |-> <<>>]
      [] jd.form \in {"text", "pdf", "docx"} -> [raised |-> FALSE, text |-> jd.text]
      [] OTHER -> [raised |-> FALSE, text |-> <<>>]

\* every file handed to an extractor, whatever its name
DispatchAnyExtension(entry) == entry.text

\* resume_text: format dispatch on the lower-cased file name
ResumeText(entry) ==
    IF EndsWith(LowerName(entry.fileName), ".pdf") THEN entry.text
    ELSE IF EndsWith(LowerName(entry.fileName), ".docx") THEN entry.text
    ELSE <<>>

Verdict(total_score) ==
    IF total_score >= 80 THEN "High"
    ELSE IF total_score >= 50 THEN "Medium" ELSE "Low"

\* llm after module import: built only with a key and a constructor that works
LlmClient(hasKey, ctorWorks) == hasKey /\ ctorWorks

Invoked(fn, i) == [fn |-> fn, resume |-> i]

-----------------------------------------------------------------------------
(* Inputs of the handler specification.                                    *)

MaxResumes == 2

JdInputs ==
    {[form |-> "text", text |-> <<"Python", " ", "and", " ", "SQL">>],
     \* an empty string, or no job_description key at all
     [form |-> "text", text |-> <<>>],
     [form |-> "pdf", text |-> <<"sql">>],
     [form |-> "docx", text |-> <<>>],
     [form |-> "other", text |-> <<"python">>],
     [form |-> "malformed", text |-> <<>>]}

Entries ==
    {[fileName |-> <<"cv", ".pdf">>, content |-> "ok", text |-> <<"python">>],
     [fileName |-> <<"CV", ".DOCX">>, content |-> "ok",
      text |-> <<"SQL", "+", "Python">>],
     [fileName |-> <<"scan", ".pdf">>, content |-> "ok", text |-> <<>>],
     [fileName |-> <<"notes", ".txt">>, content |-> "ok", text |-> <<"python">>],
     [fileName |-> <<"notes", ".txt">>, content |-> "malformed", text |-> <<>>]}

Requests ==
    {[contentLength |-> "ok", body |-> "ok", jd |-> j, resumes |-> rs] :
        j \in JdInputs, rs \in SeqsUpTo(Entries, MaxResumes)}
    \cup
    {[contentLength |-> c, body |-> b,
      jd |-> [form |-> "text", text |-> <<"sql">>],
      resumes |-> <<CHOOSE e \in Entries : e.fileName = <<"cv", ".pdf">> >>] :
        c \in {"ok", "bad"}, b \in {"ok", "bad"}}

\* what the LLM may do on a call; a single value when no call is made
Outcomes(llmOk, all) == IF llmOk THEN all ELSE {Raises}

ScoreOutcomes ==
    {Raises, NoText, Says(<<"8", "5">>), Says(<<" ", "1", "5", "0">>),
     Says(<<"-", "5">>), Says(<<"none">>)}

SuggestOutcomes == {Raises, Says(<<" ", "add", " ", "sql", " ">>)}

Obj(score) == <<LBrace, StrTok(<<"score">>), Colon, score, RBrace>>

AnalysisOutcomes ==
    {Raises, NoText,
     Says(<<Prose>> \o Obj(NumTok(75))),
     Says(<<LBrace, StrTok(<<"score">>), Colon, NumTok(150), Comma,
            StrTok(<<"suggestions">>), Colon, StrTok(<<"add", " ", "sql">>),
            RBrace>>),
     Says(Obj(NumTok(-5))),
     Says(Obj(StrTok(<<"high">>))),
     Says(<<LBrack, NumTok(75), RBrack>>),
     Says(<<Prose>>)}

SkillsOutcomes ==
    {Raises,
     Says(<<LBrack, StrTok(<<"Python">>), Comma, StrTok(<<"SQL">>), RBrack>>),
     Says(<<LBrack, NumTok(1), RBrack>>),
     Says(<<LBrace, StrTok(<<"python">>), Colon, LBrack, RBrack, RBrace>>),
     Says(<<Prose>>)}

OverallOutcomes == {Raises, Says(<<"strong", " ", "pool">>)}

-----------------------------------------------------------------------------
(* do_POST of app.py.                                                      *)

Caught(msg) == pc' = "except" /\ exc' = <<msg>>

\* lines 145-146, outside the try: an exception here leaves do_POST
AppRead ==
    /\ variant = "app" /\ pc = "start"
    /\ pc' = IF req.contentLength = "bad" THEN "escaped" ELSE "parse"
    /\ UNCHANGED <<call, ret, variant, llm, req, jdText, jdSkills, idx,
                   results, overall, calls, exc, responses>>

\* lines 149-165: parse the body, decode the job description
AppParse ==
    /\ variant = "app" /\ pc = "parse"
    /\ IF req.body = "bad" THEN Caught("invalid body") /\ jdText' = jdText
       ELSE IF DecodeJd(req.jd).raised
            THEN Caught("invalid job description") /\ jdText' = jdText
       ELSE /\ jdText' = DecodeJd(req.jd).text
            /\ pc' = "loop"
            /\ exc' = exc
    /\ UNCHANGED <<call, ret, variant, llm, req, jdSkills, idx, results,
                   overall, calls, responses>>

\* the result entry of one resume; candidateName and candidateEmail, regex
\* extracts of the resume text that nothing else reads, are left out
AppEntry(i, entry, jd_text, llmOk, scoreOut, suggestOut) ==
    LET resume_text == ResumeText(entry)
        hard == AppHardMatchScore(resume_text, jd_text)
        semantic_score == AppSemanticMatchScore(llmOk, scoreOut)
        suggestions == AppFeedbackAndSuggestions(llmOk, suggestOut)
        total_score == Round(RatAdd(hard.score, semantic_score))
    IN  [resumeName |-> entry.fileName, score |-> total_score,
         verdict |-> Verdict(total_score),
         matchedSkills |-> hard.matched, missingSkills |-> hard.missing,
         suggestions |-> JStr(suggestions),
         \* not in the response: where the entry comes from
         entry |-> i, hard |-> hard.score, semantic |-> semantic_score]

\* lines 166-190: one iteration of the loop over resumes_data
AppResume ==
    /\ variant = "app" /\ pc = "loop" /\ idx < Len(req.resumes)
    /\ LET i == idx + 1
           entry == req.resumes[i]
       IN  IF entry.content = "malformed"
           THEN /\ Caught("invalid resume entry")
                /\ UNCHANGED <<idx, results, calls>>
           ELSE \E scoreOut \in Outcomes(llm, ScoreOutcomes),
                   suggestOut \in Outcomes(llm, SuggestOutcomes) :
                    /\ results' = Append(results,
                           AppEntry(i, entry, jdText, llm, scoreOut, suggestOut))
                    /\ calls' = IF llm
                                THEN calls \o <<Invoked("get_semantic_match_score", i),
                                                Invoked("get_feedback_and_suggestions", i)>>
                                ELSE calls
                    /\ idx' = i
                    /\ UNCHANGED <<pc, exc>>
    /\ UNCHANGED <<call, ret, variant, llm, req, jdText, jdSkills, overall,
                   responses>>

\* lines 193-196
AppSend200 ==
    /\ variant = "app" /\ pc = "loop" /\ idx = Len(req.resumes)
    /\ responses' = Append(responses,
           [status |-> 200, results |-> results, error |-> <<>>,
            jobDescriptionSkills |-> JNull, overallFeedback |-> <<>>])
    /\ pc' = "done"
    /\ UNCHANGED <<call, ret, variant, llm, req, jdText, jdSkills, idx,
                   results, overall, calls, exc>>

\* lines 198-203
AppSend500 ==
    /\ variant = "app" /\ pc = "except"
    /\ responses' = Append(responses,
           [status |-> 500, results |-> <<>>, error |-> exc,
            jobDescriptionSkills |-> JNull, overallFeedback |-> <<>>])
    /\ pc' = "done"
    /\ UNCHANGED <<call, ret, variant, llm, req, jdText, jdSkills, idx,
                   results, overall, calls, exc>>

-----------------------------------------------------------------------------
(* do_POST of index.py.                                                    *)

\* the job description passed on without the emptiness test of lines 167-168
IndexParseEmptyAllowed ==
    /\ variant = "index" /\ pc = "start"
    /\ IF req.contentLength = "bad"
       THEN Caught("invalid Content-Length") /\ jdText' = jdText
       ELSE IF req.body = "bad" THEN Caught("invalid body") /\ jdText' = jdText
       ELSE IF DecodeJd(req.jd).raised
            THEN Caught("invalid job description") /\ jdText' = jdText
       ELSE /\ jdText' = DecodeJd(req.jd).text
            /\ pc' = "skills"
            /\ exc' = exc
    /\ UNCHANGED <<call, ret, variant, llm, req, jdSkills, idx, results,
                   overall, calls, responses>>

\* lines 149-168: read and parse the body, decode the job description
IndexParse ==
    /\ variant = "index" /\ pc = "start"
    /\ IF req.contentLength = "bad"
       THEN Caught("invalid Content-Length") /\ jdText' = jdText
       ELSE IF req.body = "bad" THEN Caught("invalid body") /\ jdText' = jdText
       ELSE IF DecodeJd(req.jd).raised
            THEN Caught("invalid job description") /\ jdText' = jdText
       ELSE IF DecodeJd(req.jd).text = <<>>
            THEN Caught("Job description text is empty.") /\ jdText' = <<>>
       ELSE /\ jdText' = DecodeJd(req.jd).text
            /\ pc' = "skills"
            /\ exc' = exc
    /\ UNCHANGED <<call, ret, variant, llm, req, jdSkills, idx, results,
                   overall, calls, responses>>

\* a failed extraction call made a second time
IndexSkillsRetried ==
    /\ variant = "index" /\ pc = "skills"
    /\ \E out \in Outcomes(llm, SkillsOutcomes) :
           /\ jdSkills' = ExtractJdSkills(llm, out)
           /\ calls' = IF ~llm THEN calls
                        ELSE IF out = Raises
                        THEN calls \o <<Invoked("extract_jd_skills", 0),
                                        Invoked("extract_jd_skills", 0)>>
                        ELSE Append(calls, Invoked("extract_jd_skills", 0))
    /\ pc' = "loop"
    /\ UNCHANGED <<call, ret, variant, llm, req, jdText, idx, results,
                   overall, exc, responses>>

\* line 171
IndexSkills ==
    /\ variant = "index" /\ pc = "skills"
    /\ \E out \in Outcomes(llm, SkillsOutcomes) :
           jdSkills' = ExtractJdSkills(llm, out)
    /\ calls' = IF llm THEN Append(calls, Invoked("extract_jd_skills", 0))
                ELSE calls
    /\ pc' = "loop"
    /\ UNCHANGED <<call, ret, variant, llm, req, jdText, idx, results,
                   overall, exc, responses>>

\* the result entry of one resume; candidateEmail is left out
IndexEntry(i, entry, hard, llm_results) ==
    LET total_score == Round(RatAdd(hard.score, llm_results.score))
    IN  [candidateName |-> entry.fileName, score |-> total_score,
         verdict |-> Verdict(total_score),
         missingSkills |-> hard.missing,
         suggestions |-> llm_results.suggestions,
         \* not in the response: where the entry comes from
         entry |-> i, hard |-> hard.score, semantic |-> llm_results.score]

\* lines 174-201: one iteration of the loop over resumes_data
IndexResume ==
    /\ variant = "index" /\ pc = "loop" /\ idx < Len(req.resumes)
    /\ LET i == idx + 1
           entry == req.resumes[i]
           resume_text == ResumeText(entry)
           hard == IndexHardMatchScore(resume_text, jdSkills)
       IN  IF entry.content = "malformed"
           THEN /\ Caught("invalid resume entry")
                /\ UNCHANGED <<idx, results, calls>>
           ELSE IF resume_text = <<>>
           THEN /\ idx' = i
                /\ UNCHANGED <<pc, exc, results, calls>>
           ELSE IF hard.raised
           THEN /\ Caught("object has no attribute 'lower'")
                /\ UNCHANGED <<idx, results, calls>>
           ELSE \E out \in Outcomes(llm, AnalysisOutcomes) :
                    /\ results' = Append(results,
                           IndexEntry(i, entry, hard, LlmAnalysis(llm, out)))
                    /\ calls' = IF llm
                                THEN Append(calls, Invoked("get_llm_analysis", i))
                                ELSE calls
                    /\ idx' = i
                    /\ UNCHANGED <<pc, exc>>
    /\ UNCHANGED <<call, ret, variant, llm, req, jdText, jdSkills, overall,
                   responses>>

\* lines 204-205
IndexOverall ==
    /\ variant = "index" /\ pc = "loop" /\ idx = Len(req.resumes)
    /\ \E out \in Outcomes(llm, OverallOutcomes) :
           overall' = GenerateOverallFeedback(llm, out)
    /\ calls' = IF llm
                THEN Append(calls, Invoked("generate_overall_feedback", 0))
                ELSE calls
    /\ pc' = "send"
    /\ UNCHANGED <<call, ret, variant, llm, req, jdText, jdSkills, idx,
                   results, exc, responses>>

\* lines 208-217
IndexSend200 ==
    /\ variant = "index" /\ pc = "send"
    /\ responses' = Append(responses,
           [status |-> 200, results |-> results, error |-> <<>>,
            jobDescriptionSkills |-> jdSkills, overallFeedback |-> overall])
    /\ pc' = "done"
    /\ UNCHANGED <<call, ret, variant, llm, req, jdText, jdSkills, idx,
                   results, overall, calls, exc>>

\* lines 219-223
IndexSend500 ==
    /\ variant = "index" /\ pc = "except"
    /\ responses' = Append(responses,
           [status |-> 500, results |-> <<>>,
            error |-> <<"An internal server error occurred: ">> \o exc,
            jobDescriptionSkills |-> JNull, overallFeedback |-> <<>>])
    /\ pc' = "done"
    /\ UNCHANGED <<call, ret, variant, llm, req, jdText, jdSkills, idx,
                   results, overall, calls, exc>>

-----------------------------------------------------------------------------
(* One request to either handler, from module import to the response.      *)

NoCall == [fn |-> "none"]

Init ==
    /\ call = NoCall /\ ret = <<>>
    /\ variant \in {"app", "index"}
    /\ \E hasKey \in BOOLEAN, ctorWorks \in BOOLEAN :
           llm = LlmClient(hasKey, ctorWorks)
    /\ req \in Requests
    /\ pc = "start"
    /\ jdText = <<>> /\ jdSkills = JList(<<>>) /\ idx = 0 /\ results = <<>>
    /\ overall = <<>> /\ calls = <<>> /\ exc = <<>> /\ responses = <<>>

Next ==
    \/ AppRead \/ AppParse \/ AppResume \/ AppSend200 \/ AppSend500
    \/ IndexParse \/ IndexSkills \/ IndexResume \/ IndexOverall
    \/ IndexSend200 \/ IndexSend500

Spec == Init /\ [][Next]_vars

-----------------------------------------------------------------------------
(* Properties of the handlers (Spec).                                      *)

Sent(status) == {i \in DOMAIN responses : responses[i].status = status}

\* nothing but the semantic analysis can fail in this request
WellFormed ==
    /\ req.contentLength = "ok" /\ req.body = "ok"
    /\ ~DecodeJd(req.jd).raised
    /\ variant = "index" => DecodeJd(req.jd).text # <<>>
    /\ \A i \in DOMAIN req.resumes : req.resumes[i].content = "ok"

WithText == {i \in DOMAIN req.resumes : ResumeText(req.resumes[i]) # <<>>}

EntriesOf(rs) == {rs[k] : k \in DOMAIN rs}

\* C1: every result entry of every 200 response has score =
\* round(hard_score + semantic_score), an integer in [0,100], and verdict
\* High when score >= 80, Medium when 50 <= score < 80, Low when score < 50.
ScoreAndVerdict ==
    \A i \in Sent(200) : \A e \in EntriesOf(responses[i].results) :
        /\ e.score = Round(RatAdd(e.hard, e.semantic))
        /\ e.score \in 0..100
        /\ e.score >= 80 => e.verdict = "High"
        /\ (50 <= e.score /\ e.score < 80) => e.verdict = "Medium"
        /\ e.score < 50 => e.verdict = "Low"

\* C1 witness: a 200 response that holds a High and a Low entry, the High
\* one from an LLM score above 100.
HighAndLowSent ==
    \E i \in Sent(200) :
        /\ \E e \in EntriesOf(responses[i].results) :
               e.verdict = "High" /\ e.score = 100
        /\ \E e \in EntriesOf(responses[i].results) : e.verdict = "Low"

\* C5: when llm is None, every semantic call returns score 0 and the fixed
\* "not available" message, and every total equals round(hard_score).
UnavailableLlmScoresHardOnly ==
    ~llm =>
        /\ WellFormed => pc # "except"
        /\ \A e \in EntriesOf(results) :
               /\ e.semantic = Zero
               /\ e.suggestions = IF variant = "app" THEN JStr(AppNotAvailable)
                                  ELSE NotAvailable
               /\ e.score = Round(e.hard)
        /\ \A i \in Sent(200) : responses[i].results = results

\* C5 witness: without the LLM a 200 response carries an entry whose total
\* is its non-zero hard score.
HardOnlyEntrySent ==
    /\ ~llm
    /\ \E i \in Sent(200) : \E e \in EntriesOf(responses[i].results) :
           e.score = 25 /\ e.hard = Rat(25, 1)

\* C6: no failure of the semantic analysis (LLM unavailable, a call that
\* raises, a reply that is unparsable or of an unexpected shape) aborts the
\* batch: the request ends in a 200 response with a result entry for every
\* resume whose text was extracted.
SemanticFailureNeverAborts ==
    WellFormed =>
        /\ pc # "except"
        /\ Sent(500) = {}
        /\ \A i \in Sent(200) : \A k \in WithText :
               \E e \in EntriesOf(responses[i].results) : e.entry = k

\* C6 holds of app.py
AppSemanticFailureNeverAborts == variant = "app" => SemanticFailureNeverAborts

Supported(entry) ==
    \/ EndsWith(LowerName(entry.fileName), ".pdf")
    \/ EndsWith(LowerName(entry.fileName), ".docx")

RECURSIVE Ascending(_, _)
\* the members of S up to n, in increasing order
Ascending(S, n) ==
    IF n = 0 THEN <<>>
    ELSE IF n \in S THEN Append(Ascending(S, n - 1), n)
    ELSE Ascending(S, n - 1)

EntryIndices == [k \in DOMAIN results |-> results[k].entry]

\* the handler is about to iterate an entry with an unsupported file name
\* whose content decodes
AtUnsupported ==
    /\ pc = "loop" /\ idx < Len(req.resumes)
    /\ ~Supported(req.resumes[idx + 1])
    /\ req.resumes[idx + 1].content = "ok"

\* C7 as claimed: in both handlers an entry whose file name ends in
\* neither .pdf nor .docx adds no result entry, and the results are those
\* of the other entries, in their order.
UnsupportedEntrySkipped ==
    /\ \A e \in EntriesOf(results) : Supported(req.resumes[e.entry])
    /\ \A k \in DOMAIN results : \A m \in DOMAIN results :
           k < m => results[k].entry < results[m].entry

\* C7 amended: in index.py an entry whose content decodes and whose file
\* name ends (lower-cased) in neither .pdf nor .docx is skipped, without a
\* result entry or an error, and the results are those of the entries that
\* yield text, in input order; in app.py it is not skipped: every iterated
\* entry has a result, that of an unsupported one scored on empty text.
UnsupportedEntrySkippedByIndexOnly ==
    /\ [](variant = "index" =>
           /\ \A e \in EntriesOf(results) : Supported(req.resumes[e.entry])
           /\ EntryIndices = Ascending(WithText, idx)
           /\ \A k \in DOMAIN results :
                  LET hard == IndexHardMatchScore(
                                  ResumeText(req.resumes[results[k].entry]), jdSkills)
                  IN  /\ results[k].hard = hard.score
                      /\ results[k].missingSkills = hard.missing)
    /\ [](variant = "app" =>
           /\ EntryIndices = Ascending(1..idx, idx)
           /\ \A e \in EntriesOf(results) :
                  ~Supported(req.resumes[e.entry]) =>
                      /\ e.hard = Zero
                      /\ e.matchedSkills = <<>>
                      /\ e.missingSkills = Sorted(AppSkillsOf(jdText)))
    /\ [][(AtUnsupported /\ variant = "index") =>
              /\ results' = results /\ calls' = calls
              /\ pc' = "loop" /\ idx' = idx + 1]_vars
    /\ [][(AtUnsupported /\ variant = "app") =>
              /\ Len(results') = Len(results) + 1
              /\ pc' = "loop" /\ idx' = idx + 1]_vars

\* C7 witness: index.py answered 200 to a request whose first entry is
\* unsupported with one result, that of the second entry.
UnsupportedSkippedAndNextKept ==
    /\ variant = "index"
    /\ Len(req.resumes) = 2
    /\ ~Supported(req.resumes[1]) /\ req.resumes[1].content = "ok"
    /\ \E i \in Sent(200) :
           /\ Len(responses[i].results) = 1
           /\ responses[i].results[1].entry = 2

RECURSIVE CallsFor(_, _)
\* the calls made for the result entries rs, fns being the calls per entry
CallsFor(rs, fns) ==
    IF rs = <<>> THEN <<>>
    ELSE [k \in DOMAIN fns |-> Invoked(fns[k], Head(rs).entry)]
             \o CallsFor(Tail(rs), fns)

\* C8 as claimed: a request that ends in 200 made one LLM call per result
\* entry, plus two in index.py.
OneCallPerResult ==
    \A i \in Sent(200) :
        Len(calls) = Len(responses[i].results)
                        + (IF variant = "index" THEN 2 ELSE 0)

\* C8 amended: resumes are processed in input order; with the LLM client
\* available app.py makes two calls per resume entry (score, then
\* suggestions) and index.py one call for the job description, then one per
\* resume that yields a result, then one for the overall summary; without
\* the client no call is made; no call is made twice.
CallsInOrder ==
    /\ \A k \in DOMAIN results : \A m \in DOMAIN results :
           k < m => results[k].entry < results[m].entry
    /\ ~llm => calls = <<>>
    /\ (llm /\ variant = "app") =>
           calls = CallsFor(results, <<"get_semantic_match_score",
                                       "get_feedback_and_suggestions">>)
    /\ (llm /\ variant = "index") =>
           calls = (IF pc \in {"start", "skills"} \/ jdText = <<>> THEN <<>>
                    ELSE <<Invoked("extract_jd_skills", 0)>>)
                   \o CallsFor(results, <<"get_llm_analysis">>)
                   \o (IF pc = "send" \/ Sent(200) # {}
                       THEN <<Invoked("generate_overall_feedback", 0)>>
                       ELSE <<>>)
    /\ \A k \in DOMAIN calls : \A m \in DOMAIN calls :
           calls[k] = calls[m] => k = m

\* C8 witness: index.py answered 200 with two results after four calls,
\* the first of which failed.
FourCallsForTwoResults ==
    /\ variant = "index" /\ llm
    /\ \E i \in Sent(200) : Len(responses[i].results) = 2
    /\ Len(calls) = 4
    /\ jdSkills = JList(<<>>)

\* C9: every POST ends with exactly one response, 200 with the results or
\* 500 with the exception's message under "error" and no result entry; an
\* exception at any step of do_POST yields the 500 response.
ExactlyOneResponse ==
    pc \in {"done", "escaped"} =>
        /\ Len(responses) = 1
        /\ \/ /\ responses[1].status = 200
              /\ exc = <<>>
              /\ responses[1].results = results
           \/ /\ responses[1].status = 500
              /\ exc # <<>>
              /\ exc[1] \in Range(responses[1].error)
              /\ responses[1].results = <<>>

\* C9 holds of index.py
IndexExactlyOneResponse == variant = "index" => ExactlyOneResponse

\* the body was read and job_description_text is the empty string
JdEmpty ==
    /\ req.contentLength = "ok" /\ req.body = "ok"
    /\ ~DecodeJd(req.jd).raised
    /\ DecodeJd(req.jd).text = <<>>

\* every resume entry has its fields, a comma and valid base64
EntriesDecodable == \A i \in DOMAIN req.resumes : req.resumes[i].content = "ok"

EmptyJdError ==
    <<"An internal server error occurred: ", "Job description text is empty.">>

\* C11: when the job description text is empty after decoding, index.py
\* makes no LLM call, processes no resume and answers 500 with an error and
\* never 200; app.py goes on: every entry has hard score 0, no matched and
\* no missing skill and a total equal to the rounded semantic score, and
\* (every resume entry being decodable) the request ends in one 200 response
\* with one entry per resume, in input order.
EmptyJdAbortsIndexDegradesApp ==
    JdEmpty =>
        /\ variant = "index" =>
               /\ calls = <<>> /\ results = <<>> /\ idx = 0
               /\ pc \in {"start", "except", "done"}
               /\ Sent(200) = {}
               /\ pc = "done" =>
                      /\ Len(responses) = 1
                      /\ responses[1].status = 500
                      /\ responses[1].error = EmptyJdError
        /\ variant = "app" =>
               /\ \A e \in EntriesOf(results) :
                      /\ e.hard = Zero
                      /\ e.matchedSkills = <<>> /\ e.missingSkills = <<>>
                      /\ e.score = Round(e.semantic)
               /\ EntriesDecodable =>
                      /\ pc # "except"
                      /\ pc = "done" =>
                             /\ Len(responses) = 1
                             /\ responses[1].status = 200
                             /\ responses[1].results = results
                             /\ Len(results) = Len(req.resumes)
                             /\ \A k \in DOMAIN results : results[k].entry = k

\* C11 witness: app.py, empty job description, two resumes: a 200 response
\* with two entries of hard score 0, one of them scored by the LLM alone.
EmptyJdAppScoredBySemantic ==
    /\ variant = "app" /\ JdEmpty /\ Len(req.resumes) = 2
    /\ Len(responses) = 1 /\ responses[1].status = 200
    /\ Len(responses[1].results) = 2
    /\ \A e \in EntriesOf(responses[1].results) :
           e.hard = Zero /\ e.matchedSkills = <<>> /\ e.missingSkills = <<>>
    /\ \E e \in EntriesOf(responses[1].results) :
           e.score = 42 /\ ResumeText(req.resumes[e.entry]) # <<>>

\* index.py with an LLM client and two readable resumes answered 500 for an
\* empty job description, with no call made
EmptyJdIndexAborted ==
    /\ variant = "index" /\ JdEmpty /\ llm
    /\ Len(req.resumes) = 2 /\ WithText = {1, 2}
    /\ Len(responses) = 1 /\ responses[1].status = 500
    /\ responses[1].error = EmptyJdError
    /\ calls = <<>> /\ results = <<>>

-----------------------------------------------------------------------------
(* The scorers and analyzers alone: every bounded input, one call each.    *)

HandlerIdle ==
    /\ variant = "none" /\ llm = FALSE
    /\ req = [contentLength |-> "ok", body |-> "ok",
              jd |-> [form |-> "text", text |-> <<>>], resumes |-> <<>>]
    /\ pc = "idle"
    /\ jdText = <<>> /\ jdSkills = JList(<<>>) /\ idx = 0 /\ results = <<>>
    /\ overall = <<>> /\ calls = <<>> /\ exc = <<>> /\ responses = <<>>

TextItems == {"python", "SQL", "and", " ", "+"}
SkillPool == {<<"Python">>, <<"sql">>, <<"python", "+">>, <<>>}

SkillList(ss) == JList([i \in DOMAIN ss |-> JStr(ss[i])])

InitHard ==
    /\ HandlerIdle
    /\ ret = <<>>
    /\ \/ \E r \in SeqsUpTo(TextItems, MaxResumeLen),
             j \in SeqsUpTo(TextItems, MaxJdLen) :
             call = [fn |-> "app.get_hard_match_score", resume |-> r, jd |-> j]
       \/ \E r \in SeqsUpTo(TextItems, MaxResumeLen),
             ss \in SeqsUpTo(SkillPool, MaxSkills) :
             call = [fn |-> "index.get_hard_match_score", resume |-> r,
                     jd |-> SkillList(ss)]

AppHardMatch ==
    /\ ret = <<>>
    /\ call.fn = "app.get_hard_match_score"
    /\ ret' = <<AppHardMatchScore(call.resume, call.jd)>>
    /\ UNCHANGED <<call, handlerVars>>

IndexHardMatch ==
    /\ ret = <<>>
    /\ call.fn = "index.get_hard_match_score"
    /\ ret' = <<IndexHardMatchScore(call.resume, call.jd)>>
    /\ UNCHANGED <<call, handlerVars>>

NextHard == AppHardMatch \/ IndexHardMatch

SpecHard == InitHard /\ [][NextHard]_vars

-----------------------------------------------------------------------------
(* The semantic analyzers alone (SpecLLM): every bounded LLM reply.        *)

MaxLlmChars == 3
MaxToks == 5
RawMargin == 5

\* the integers the LLM may answer, some of them outside 0..100
RawScores == (0 - RawMargin)..(100 + RawMargin)

LlmItems == {"1", "5", "0", "-", "x", " "}
LlmToks == {LBrace, RBrace, LBrack, RBrack, Colon, StrTok(<<"score">>),
            NumTok(75), Prose}

AppReplies ==
    {Raises, NoText}
    \cup {Says(t) : t \in SeqsUpTo(LlmItems, MaxLlmChars)}
    \cup {Says(IntText(r)) : r \in RawScores}

IndexReplies ==
    {Raises, NoText}
    \cup {Says(t) : t \in SeqsUpTo(LlmToks, MaxToks)}
    \cup {Says(Obj(NumTok(r))) : r \in RawScores}
    \cup {Says(Obj(StrTok(IntText(r)))) : r \in {-5, 40, 150}}
    \cup {Says(Obj(v)) : v \in {NullTok, StrTok(<<"x">>)}}

InitLLM ==
    /\ HandlerIdle
    /\ ret = <<>>
    /\ \/ \E out \in AppReplies :
             call = [fn |-> "app.get_semantic_match_score", llm |-> TRUE,
                     out |-> out]
       \/ \E fn \in {"index.get_llm_analysis", "index.extract_jd_skills"},
             out \in IndexReplies :
             call = [fn |-> fn, llm |-> TRUE, out |-> out]
       \/ \E fn \in {"app.get_semantic_match_score", "index.get_llm_analysis",
                     "index.extract_jd_skills"} :
             call = [fn |-> fn, llm |-> FALSE, out |-> Raises]

AppSemantic ==
    /\ ret = <<>>
    /\ call.fn = "app.get_semantic_match_score"
    /\ ret' = <<AppSemanticMatchScore(call.llm, call.out)>>
    /\ UNCHANGED <<call, handlerVars>>

IndexAnalysis ==
    /\ ret = <<>>
    /\ call.fn = "index.get_llm_analysis"
    /\ ret' = <<LlmAnalysis(call.llm, call.out)>>
    /\ UNCHANGED <<call, handlerVars>>

IndexExtract ==
    /\ ret = <<>>
    /\ call.fn = "index.extract_jd_skills"
    /\ ret' = <<ExtractJdSkills(call.llm, call.out)>>
    /\ UNCHANGED <<call, handlerVars>>

NextLLM == AppSemantic \/ IndexAnalysis \/ IndexExtract

SpecLLM == InitLLM /\ [][NextLLM]_vars

-----------------------------------------------------------------------------
(* Properties of the hard-match scorers (SpecHard).                        *)

InRange(x) == RatLeq(Zero, x) /\ RatLeq(x, Fifty)

HardDone(fn) == ret # <<>> /\ call.fn = fn

AppMatchedMissingPartition ==
    HardDone("app.get_hard_match_score") =>
        LET jd_skills == AppSkillsOf(call.jd)
            resume_skills == AppSkillsOf(call.resume)
            matched == Range(ret[1].matched)
            missing == Range(ret[1].missing)
        IN  jd_skills # {} =>
                /\ matched = resume_skills \cap jd_skills
                /\ missing = jd_skills \ resume_skills
                /\ matched \cup missing = jd_skills
                /\ matched \cap missing = {}
                /\ Len(ret[1].matched) = Cardinality(matched)
                /\ Len(ret[1].missing) = Cardinality(missing)
                /\ ret[1].score.num * Cardinality(jd_skills)
                       = 50 * Cardinality(matched) * ret[1].score.den
                /\ (jd_skills = {<<"python">>, <<"sql">>}
                        /\ resume_skills = {<<"python">>}) =>
                       /\ ret[1].matched = << <<"python">> >>
                       /\ ret[1].missing = << <<"sql">> >>
                       /\ ret[1].score = Rat(25, 1)

\* C3 witness: the example of the claim has been scored.
AppExampleScored ==
    /\ HardDone("app.get_hard_match_score")
    /\ AppSkillsOf(call.jd) = {<<"python">>, <<"sql">>}
    /\ AppSkillsOf(call.resume) = {<<"python">>}
    /\ ret[1].score = Rat(25, 1)

-----------------------------------------------------------------------------
(* Properties of the semantic analyzers (SpecLLM).                         *)

LlmDone(fn) == ret # <<>> /\ call.fn = fn

\* the integer the LLM answered, when its answer is one: the whole reply of
\* app.py's prompt, the "score" entry of index.py's JSON object
AppRawIsInt == call.llm /\ call.out.o = "text" /\ IsIntText(Strip(call.out.text))
AppRaw == IntOfText(Strip(call.out.text))
AppNoNumber ==
    call.llm /\ (call.out.o # "text"
                 \/ \A i \in DOMAIN call.out.text : call.out.text[i] \notin Digits)

IndexReplyObject ==
    IF call.llm /\ call.out.o = "text"
          /\ SearchJson(call.out.text) # <<>>
          /\ JsonLoads(SearchJson(call.out.text)).ok
          /\ JsonLoads(SearchJson(call.out.text)).val.kind = "dict"
    THEN <<JsonLoads(SearchJson(call.out.text)).val>>
    ELSE <<>>
IndexRawValue ==
    IF IndexReplyObject # <<>> /\ HasKey(IndexReplyObject[1], <<"score">>)
    THEN <<DictGet(IndexReplyObject[1], <<"score">>, JNull)>>
    ELSE <<>>
IndexRawIsInt == IndexRawValue # <<>> /\ IndexRawValue[1].kind = "num"
IndexRaw == IndexRawValue[1].val[1]
IndexNoNumber ==
    /\ call.llm
    /\ \/ IndexRawValue = <<>>
       \/ IndexRawValue[1].kind \notin {"num", "str"}
       \/ IndexRawValue[1].kind = "str" /\ ~IsIntText(IndexRawValue[1].val)

\* C4: the semantic score is in [0,50] whatever the LLM returns: a raw
\* value r in 0..100 yields r/100*50, a raw value outside 0..100 is clamped
\* to the nearest bound, and a non-numeric or missing raw value yields 0 or
\* the fixed default (25 in app.py).
SemanticScoreClampsRaw ==
    /\ LlmDone("app.get_semantic_match_score") =>
           /\ InRange(ret[1])
           /\ AppRawIsInt => ret[1] = Rat(Clamp(AppRaw), 2)
           /\ AppNoNumber => ret[1] \in {Zero, FallbackScore}
    /\ LlmDone("index.get_llm_analysis") =>
           /\ InRange(ret[1].score)
           /\ IndexRawIsInt => ret[1].score = Rat(Clamp(IndexRaw), 2)
           /\ IndexNoNumber => ret[1].score = Zero

\* what remains of C4 in app.py: the score is in [0,50], and the first run
\* of digits of the reply, read without its sign, is clamped to 100 and halved
AppSemanticInRange ==
    LlmDone("app.get_semantic_match_score") =>
        /\ InRange(ret[1])
        /\ (AppRawIsInt /\ AppRaw >= 0) => ret[1] = Rat(Clamp(AppRaw), 2)
        /\ (AppRawIsInt /\ AppRaw < 0) => ret[1] = Rat(Clamp(-AppRaw), 2)
        /\ AppNoNumber => ret[1] \in {Zero, FallbackScore}

\* the part of C4 about index.py
IndexSemanticClampsRaw ==
    LlmDone("index.get_llm_analysis") =>
        /\ InRange(ret[1].score)
        /\ IndexRawIsInt => ret[1].score = Rat(Clamp(IndexRaw), 2)
        /\ IndexNoNumber => ret[1].score = Zero

ReplyUnparsable ==
    /\ call.llm /\ call.out.o = "text"
    /\ \/ SearchJson(call.out.text) = <<>>
       \/ ~JsonLoads(SearchJson(call.out.text)).ok

\* C10: when the LLM reply holds no JSON-shaped substring or the substring
\* fails to parse, the call site's default comes back: get_llm_analysis
\* returns score 0 with the placeholder suggestion and extract_jd_skills
\* returns the empty list.
UnparsableReplyGivesDefault ==
    /\ (LlmDone("index.get_llm_analysis") /\ ReplyUnparsable) =>
           ret[1] = [score |-> Zero, suggestions |-> ErrorParsing]
    /\ (LlmDone("index.extract_jd_skills") /\ ReplyUnparsable) =>
           ret[1] = JList(<<>>)

\* the half of C10 about get_llm_analysis
UnparsableAnalysisGivesDefault ==
    (LlmDone("index.get_llm_analysis") /\ ReplyUnparsable) =>
        ret[1] = [score |-> Zero, suggestions |-> ErrorParsing]

\* what extract_jd_skills returns instead: the empty dict
UnparsableSkillsGiveEmptyDict ==
    (LlmDone("index.extract_jd_skills") /\ ReplyUnparsable) =>
        ret[1] = JDict(<<>>)

====
